---- MODULE Spec2Model ----
(***************************************************************************)
(* Model of the AWS Elasticache Redis provider (CreateRedis / DeleteRedis, *)
(* pkg/providers/aws/provider_redis.go) and of the RedisSnapshot           *)
(* controller (ReconcileRedisSnapshot.Reconcile).                          *)
(*                                                                         *)
(* A pass of the provider is split at its blocking calls (the poll of      *)
(* DescribeReplicationGroups, CreateReplicationGroup,                      *)
(* DeleteReplicationGroup, Client.Update), so that two reconcilers and     *)
(* the external control plane interleave exactly where the code lets them. *)
(***************************************************************************)
EXTENDS Integers, Sequences, FiniteSets, TLC

VARIABLES
  rg,                 \* external status of the replication group with the resolved id
  rgVisible,          \* the group is reflected in DescribeReplicationGroups
  finalizers,         \* persisted ObjectMeta.Finalizers of the Redis object
  deletionTimestamp,  \* persisted ObjectMeta.DeletionTimestamp is set
  createCalls,        \* create calls issued for the id since the group last was absent
  deleteCalls,        \* delete calls issued for the id since the group last was created
  pc,                 \* position of each reconciler in its pass
  op,                 \* the operation of each reconciler's current / last pass
  r,                  \* the *v1alpha1.Redis each reconciler was handed
  rgs,                \* the list getReplicationGroups returned to the pass
  updated,            \* the Client.Update of the pass returned no error
  called,             \* the mutating control-plane calls of the pass, with their answers
  ret,                \* what the pass returned
  phase,              \* persisted RedisSnapshot.Status.Phase
  message,            \* persisted RedisSnapshot.Status.Message
  snapshot,           \* external status of the snapshot with the generated name
  primary,            \* the cache cluster that holds the primary role, "" if none
  snapshotCalls,      \* CreateSnapshot calls issued for the generated name
  sPc,                \* position of the snapshot reconciler in its pass
  pass,               \* what the current / last Reconcile pass read and did
  result              \* the (reconcile.Result, error) the pass returned

provVars == <<rg, rgVisible, finalizers, deletionTimestamp, createCalls, deleteCalls,
              pc, op, r, rgs, updated, called, ret>>

snapVars == <<phase, message, snapshot, primary, snapshotCalls, sPc, pass, result>>

vars == <<provVars, snapVars>>

\* ------------------------------------------------------------------ bounds
MaxCalls == 2
MaxSnapshotCalls == 2

\* --------------------------------------------------------------- constants
PollInterval == 5
PollTimeout == 300

\* time.Second * 60 of the snapshot reconciler's RequeueAfter
RequeueSeconds == 60

Procs == {"A", "B"}

DefaultFinalizer == "finalizers.aws.cloud-resources-operator.integreatly.org"

RedisName == "foo"
OtherId == "bar"

\* ReplicationGroupId of the strategy config; <<>> is a nil pointer
StrategyReplicationGroupId == <<>>

ErrCodeReplicationGroupNotFoundFault == "ReplicationGroupNotFoundFault"
ErrWaitTimeout == "timed out waiting for the condition"

NoError == "nil"

Statuses == {"creating", "available", "modifying", "deleting"}

\* ----------------------------------------------------------------- helpers
AddFinalizer(fs, f) == fs \cup {f}

RemoveFinalizer(fs, f) == fs \ {f}

\* provider_redis.go:75-77 (and 158-160)
ResolveReplicationGroupId(cfgId, name) == IF cfgId = <<>> THEN name ELSE cfgId[1]

TargetId == ResolveReplicationGroupId(StrategyReplicationGroupId, RedisName)

Endpoint(id) == IF id = TargetId THEN [Address |-> "10.0.0.5", Port |-> 6379]
                ELSE [Address |-> "10.0.0.9", Port |-> 6379]

Group(id, status) == [ReplicationGroupId |-> id, Status |-> status,
                      PrimaryEndpoint |-> Endpoint(id)]

\* what DescribeReplicationGroups (no filter) answers now
DescribeReplicationGroups ==
  <<Group(OtherId, "available")>> \o
  (IF rg # "absent" /\ rgVisible THEN <<Group(TargetId, rg)>> ELSE <<>>)

RECURSIVE FindFrom(_, _, _)
FindFrom(groups, id, i) ==
  IF i > Len(groups) THEN 0
  ELSE IF groups[i].ReplicationGroupId = id THEN i
  ELSE FindFrom(groups, id, i + 1)

\* mutant: the lookup never finds the group
FoundCache_Never(groups, id) == 0

\* the lookup loop of createRedisCluster / deleteRedisCluster: 0 is foundCache == nil
FoundCache(groups, id) == FindFrom(groups, id, 1)

\* wait.PollImmediate(interval, timeout, condition) of provider_redis.go:222: the
\* condition runs at once and then after every interval until the timeout has passed;
\* `failures` is the number of describes that fail before one succeeds
RECURSIVE PollFrom(_, _)
PollFrom(failures, waited) ==
  IF failures = 0 THEN [done |-> TRUE, waited |-> waited]
  ELSE IF waited + PollInterval > PollTimeout THEN [done |-> FALSE, waited |-> waited]
  ELSE PollFrom(failures - 1, waited + PollInterval)

\* mutant: the first failed describe ends the poll
PollImmediate_FailsOnError(failures) == [done |-> failures = 0, waited |-> 0]

PollImmediate(failures) == PollFrom(failures, 0)

\* immediate success, one retry, success at the last poll, no success within the bound
DescribeFailures ==
  {0, 1, PollTimeout \div PollInterval, PollTimeout \div PollInterval + 1}

Call(api, answer) == [api |-> api, answer |-> answer]

\* croType.StatusPhase values; a new RedisSnapshot has no phase yet (the spec's Pending)
PhaseNone == ""
PhaseInProgress == "in progress"
PhaseComplete == "complete"
PhaseFailed == "failed"

AWSDeploymentStrategy == "aws"

\* a status message: its text and the value formatted into it
Msg(text, arg) == <<text, arg>>

NoMessage == Msg("", "")

\* the cache clusters of the replication group's first node group
Nodes == <<"foo-001", "foo-002">>

Result(requeue, after, err) == [Requeue |-> requeue, RequeueAfter |-> after, err |-> err]

NoResult == Result(FALSE, 0, "running")

NoPass == [started |-> FALSE, startPhase |-> PhaseNone, startMessage |-> NoMessage,
           redis |-> "", foundSnapshot |-> "nil", group |-> "nil", cacheName |-> "",
           err |-> NoError, calls |-> {}, writes |-> 0, failedWrites |-> 0]

Returned(cluster, err) == [cluster |-> cluster, err |-> err]

NoReturn == [cluster |-> <<>>, err |-> "running"]

Finish(p, cluster, err) ==
  /\ pc' = [pc EXCEPT ![p] = "idle"]
  /\ ret' = [ret EXCEPT ![p] = Returned(cluster, err)]

\* --------------------------------------------------------------------- Init
\* the snapshot reconciler before its first pass over a new RedisSnapshot
SnapIdle ==
  /\ phase = PhaseNone
  /\ message = NoMessage
  /\ snapshot = "absent"
  /\ primary = Nodes[1]
  /\ snapshotCalls = 0
  /\ sPc = "idle"
  /\ pass = NoPass
  /\ result = NoResult

Init ==
  /\ SnapIdle
  /\ rg = "absent"
  /\ rgVisible = FALSE
  /\ finalizers = {}
  /\ deletionTimestamp = FALSE
  /\ createCalls = 0
  /\ deleteCalls = 0
  /\ pc = [p \in Procs |-> "idle"]
  /\ op = [p \in Procs |-> "none"]
  /\ r = [p \in Procs |-> [fin |-> {}, del |-> FALSE]]
  /\ rgs = [p \in Procs |-> <<>>]
  /\ updated = [p \in Procs |-> FALSE]
  /\ called = [p \in Procs |-> {}]
  /\ ret = [p \in Procs |-> NoReturn]

\* the per-pass bookkeeping at the entry of CreateRedis / DeleteRedis
Enter(p, operation, obj, didUpdate) ==
  /\ op' = [op EXCEPT ![p] = operation]
  /\ r' = [r EXCEPT ![p] = obj]
  /\ updated' = [updated EXCEPT ![p] = didUpdate]
  /\ called' = [called EXCEPT ![p] = {}]
  /\ rgs' = [rgs EXCEPT ![p] = <<>>]

\* ------------------------------------------------------------- CreateRedis
\* provider_redis.go:63  r.GetDeletionTimestamp() == nil
HandlesFinalizer(obj) == ~obj.del

\* provider_redis.go:61-86: finalizer, strategy config, provider credentials
CreateRedis(p) ==
  /\ pc[p] = "idle"
  /\ \E update \in {"ok", "error"}, setup \in {"ok", "config", "credentials"} :
       LET obj == [fin |-> finalizers, del |-> deletionTimestamp]
           adds == HandlesFinalizer(obj)
           withFin == IF adds
                      THEN [obj EXCEPT !.fin = AddFinalizer(@, DefaultFinalizer)]
                      ELSE obj
           persisted == adds /\ update = "ok"
       IN  /\ Enter(p, "create", obj, persisted)
           /\ finalizers' = IF persisted THEN withFin.fin ELSE finalizers
           /\ IF adds /\ update = "error"
              THEN Finish(p, <<>>, "failed to add finalizer to instance")
              ELSE IF setup = "config"
              THEN Finish(p, <<>>, "failed to retrieve aws redis cluster config for instance")
              ELSE IF setup = "credentials"
              THEN Finish(p, <<>>, "failed to reconcile s3 put object credentials")
              ELSE /\ pc' = [pc EXCEPT ![p] = "list"]
                   /\ ret' = [ret EXCEPT ![p] = NoReturn]
  /\ UNCHANGED <<rg, rgVisible, deletionTimestamp, createCalls, deleteCalls,
                 snapVars>>

\* provider_redis.go:222-232 with 103-107 / 178-180: every describe of the poll
\* failed and the poll ran out; the pass returns the timeout
getReplicationGroups_Timeout(p) ==
  /\ pc[p] = "list"
  /\ {failures \in DescribeFailures : ~PollImmediate(failures).done} # {}
  /\ Finish(p, <<>>, ErrWaitTimeout)
  /\ UNCHANGED <<rg, rgVisible, finalizers, deletionTimestamp, createCalls, deleteCalls,
                 op, r, rgs, updated, called,
                 snapVars>>

\* mutant: a group found in a status other than available is created again
CreateDecision_CreateUnlessAvailable(groups, id) ==
  LET i == FoundCache(groups, id)
  IN  IF i # 0 /\ groups[i].Status = "available" THEN "endpoint" ELSE "create"

\* provider_redis.go:109-127: what createRedisCluster does with the list
CreateDecision(groups, id) ==
  LET i == FoundCache(groups, id)
  IN  IF i # 0
      THEN IF groups[i].Status = "available" THEN "endpoint" ELSE "wait"
      ELSE "create"

\* mutant: the endpoint is read from the first listed group, not from the found one
RedisCluster_FirstListed(groups, id) ==
  [URI |-> groups[1].PrimaryEndpoint.Address, Port |-> groups[1].PrimaryEndpoint.Port]

\* provider_redis.go:120-124
RedisCluster(groups, id) ==
  LET primaryEndpoint == groups[FoundCache(groups, id)].PrimaryEndpoint
  IN  [URI |-> primaryEndpoint.Address, Port |-> primaryEndpoint.Port]

\* provider_redis.go:100-127: the poll's successful describe and the lookup
createRedisCluster(p) ==
  /\ pc[p] = "list"
  /\ op[p] = "create"
  /\ {failures \in DescribeFailures : PollImmediate(failures).done} # {}
  /\ LET groups == DescribeReplicationGroups
         decision == CreateDecision(groups, TargetId)
     IN  /\ rgs' = [rgs EXCEPT ![p] = groups]
         /\ IF decision = "endpoint"
            THEN Finish(p, <<RedisCluster(groups, TargetId)>>, NoError)
            ELSE IF decision = "wait"
            THEN Finish(p, <<>>, NoError)
            ELSE /\ pc' = [pc EXCEPT ![p] = "create"]
                 /\ UNCHANGED ret
  /\ UNCHANGED <<rg, rgVisible, finalizers, deletionTimestamp, createCalls, deleteCalls,
                 op, r, updated, called,
                 snapVars>>

\* mutant: the error of the create call is dropped
CreateError_Dropped(answer) == NoError

\* provider_redis.go:143-148: the error createRedisCluster returns for the call's answer
CreateError(answer) == IF answer = "ok" THEN NoError ELSE answer

\* provider_redis.go:129-148: the CreateReplicationGroup call
createRedisCluster_Create(p) ==
  /\ pc[p] = "create"
  /\ \/ /\ rg = "absent"            \* accepted; creation is asynchronous
        /\ createCalls < MaxCalls
        /\ called' = [called EXCEPT ![p] = @ \cup {Call("CreateReplicationGroup", "ok")}]
        /\ rg' = "creating"
        /\ \E v \in BOOLEAN : rgVisible' = v
        /\ createCalls' = createCalls + 1
        /\ deleteCalls' = 0
        /\ Finish(p, <<>>, CreateError("ok"))
     \/ /\ rg # "absent"            \* the id is taken: a duplicate create, refused
        /\ createCalls < MaxCalls
        /\ called' = [called EXCEPT ![p] =
                        @ \cup {Call("CreateReplicationGroup", "ReplicationGroupAlreadyExists")}]
        /\ createCalls' = createCalls + 1
        /\ Finish(p, <<>>, CreateError("ReplicationGroupAlreadyExists"))
        /\ UNCHANGED <<rg, rgVisible, deleteCalls>>
     \/ /\ called' = [called EXCEPT ![p] =  \* the call did not get through
                        @ \cup {Call("CreateReplicationGroup", "RequestError")}]
        /\ Finish(p, <<>>, CreateError("RequestError"))
        /\ UNCHANGED <<rg, rgVisible, createCalls, deleteCalls>>
  /\ UNCHANGED <<finalizers, deletionTimestamp, op, r, rgs, updated,
                 snapVars>>

\* ------------------------------------------------------------- DeleteRedis
\* provider_redis.go:152-172: strategy config, provider credentials
DeleteRedis(p) ==
  /\ pc[p] = "idle"
  /\ \E setup \in {"ok", "config", "credentials"} :
       /\ Enter(p, "delete", [fin |-> finalizers, del |-> deletionTimestamp], FALSE)
       /\ IF setup = "config"
          THEN Finish(p, <<>>, "failed to retrieve aws redis config for instance")
          ELSE IF setup = "credentials"
          THEN Finish(p, <<>>, "failed to reconcile aws provider credentials")
          ELSE /\ pc' = [pc EXCEPT ![p] = "list"]
               /\ ret' = [ret EXCEPT ![p] = NoReturn]
  /\ UNCHANGED <<rg, rgVisible, finalizers, deletionTimestamp, createCalls, deleteCalls,
                 snapVars>>

\* mutant: a group that is found is deleted whatever its status
DeleteDecision_DeleteWhenFound(groups, id) ==
  IF FoundCache(groups, id) = 0 THEN "finalizer" ELSE "delete"

\* mutant: the finalizer is also removed when the group is found but not available
DeleteDecision_FinalizerUnlessAvailable(groups, id) ==
  LET i == FoundCache(groups, id)
  IN  IF i # 0 /\ groups[i].Status = "available" THEN "delete" ELSE "finalizer"

\* provider_redis.go:182-200, 216: what deleteRedisCluster does with the list
DeleteDecision(groups, id) ==
  LET i == FoundCache(groups, id)
  IN  IF i = 0 THEN "finalizer"
      ELSE IF groups[i].Status = "available" THEN "delete"
      ELSE "nothing"

\* provider_redis.go:175-200: the poll's successful describe and the lookup
deleteRedisCluster(p) ==
  /\ pc[p] = "list"
  /\ op[p] = "delete"
  /\ {failures \in DescribeFailures : PollImmediate(failures).done} # {}
  /\ LET groups == DescribeReplicationGroups
         decision == DeleteDecision(groups, TargetId)
     IN  /\ rgs' = [rgs EXCEPT ![p] = groups]
         /\ IF decision = "finalizer"
            THEN pc' = [pc EXCEPT ![p] = "update"] /\ UNCHANGED ret
            ELSE IF decision = "delete"
            THEN pc' = [pc EXCEPT ![p] = "delete"] /\ UNCHANGED ret
            ELSE Finish(p, <<>>, NoError)
  /\ UNCHANGED <<rg, rgVisible, finalizers, deletionTimestamp, createCalls, deleteCalls,
                 op, r, updated, called,
                 snapVars>>

\* provider_redis.go:191-198: RemoveFinalizer and Client.Update.  The update is
\* refused (a conflict) when the stored object changed since the pass was handed r.
deleteRedisCluster_Update(p) ==
  /\ pc[p] = "update"
  /\ LET without == RemoveFinalizer(r[p].fin, DefaultFinalizer)
     IN  \/ /\ finalizers = r[p].fin
            /\ deletionTimestamp = r[p].del
            /\ finalizers' = without
            /\ updated' = [updated EXCEPT ![p] = TRUE]
            /\ Finish(p, <<>>, NoError)
         \/ /\ UNCHANGED <<finalizers, updated>>
            /\ Finish(p, <<>>, "failed to update instance as part of finalizer reconcile")
  /\ UNCHANGED <<rg, rgVisible, deletionTimestamp, createCalls, deleteCalls,
                 op, r, rgs, called,
                 snapVars>>

\* what the control plane answers to DeleteReplicationGroup for a group in `status`
DeleteResponse(status) ==
  IF status = "available" THEN [err |-> FALSE, aws |-> FALSE, code |-> "ok"]
  ELSE IF status = "absent"
  THEN [err |-> TRUE, aws |-> TRUE, code |-> ErrCodeReplicationGroupNotFoundFault]
  ELSE [err |-> TRUE, aws |-> TRUE, code |-> "InvalidReplicationGroupState"]

RequestFailure == [err |-> TRUE, aws |-> FALSE, code |-> "RequestError"]

\* mutant: every error of the control plane is taken for "not found"
DeleteError_AnyAwsErrorIsSuccess(resp) ==
  IF resp.err /\ ~resp.aws THEN "failed to delete elasticache cluster" ELSE NoError

\* provider_redis.go:206-216: the error deleteRedisCluster returns for an answer
DeleteError(resp) ==
  IF resp.err /\ ~resp.aws THEN "failed to delete elasticache cluster"
  ELSE IF resp.err /\ resp.aws /\ resp.code # ErrCodeReplicationGroupNotFoundFault
  THEN "failed to delete elasticache cluster, aws error"
  ELSE NoError

\* provider_redis.go:200-216: the DeleteReplicationGroup call
deleteRedisCluster_Delete(p) ==
  /\ pc[p] = "delete"
  /\ \E resp \in {DeleteResponse(rg), RequestFailure} :
       /\ called' = [called EXCEPT ![p] = @ \cup {Call("DeleteReplicationGroup", resp.code)}]
       /\ Finish(p, <<>>, DeleteError(resp))
       /\ IF ~resp.err
          THEN /\ deleteCalls < MaxCalls
               /\ rg' = "deleting"
               /\ deleteCalls' = deleteCalls + 1
          ELSE IF resp.aws /\ rg \in {"deleting", "absent"}
          THEN /\ deleteCalls < MaxCalls      \* a duplicate of an accepted delete
               /\ deleteCalls' = deleteCalls + 1
               /\ UNCHANGED rg
          ELSE UNCHANGED <<rg, deleteCalls>>
  /\ UNCHANGED <<rgVisible, finalizers, deletionTimestamp, createCalls,
                 op, r, rgs, updated,
                 snapVars>>

\* ------------------------------------------------------------- environment
procVars == <<pc, op, r, rgs, updated, called, ret>>

\* the accepted create becomes visible to DescribeReplicationGroups
ExtPropagate ==
  /\ rg # "absent"
  /\ ~rgVisible
  /\ rgVisible' = TRUE
  /\ UNCHANGED <<rg, finalizers, deletionTimestamp, createCalls, deleteCalls, procVars,
                 snapVars>>

\* the control plane moves the group: creating -> available <-> modifying
ExtStatus ==
  /\ \E next \in Statuses :
       /\ \/ rg = "creating" /\ next = "available"
          \/ rg = "available" /\ next = "modifying"
          \/ rg = "modifying" /\ next = "available"
       /\ rg' = next
  /\ UNCHANGED <<rgVisible, finalizers, deletionTimestamp, createCalls, deleteCalls, procVars,
                 snapVars>>

\* an accepted delete completes: the group is gone
ExtDeleted ==
  /\ rg = "deleting"
  /\ rg' = "absent"
  /\ rgVisible' = FALSE
  /\ createCalls' = 0
  /\ UNCHANGED <<finalizers, deletionTimestamp, deleteCalls, procVars,
                 snapVars>>

\* the owner asks for the Redis object to be deleted
MarkDeleted ==
  /\ ~deletionTimestamp
  /\ deletionTimestamp' = TRUE
  /\ UNCHANGED <<rg, rgVisible, finalizers, createCalls, deleteCalls, procVars,
                 snapVars>>

Next ==
  \/ \E p \in Procs : CreateRedis(p)
  \/ \E p \in Procs : getReplicationGroups_Timeout(p)
  \/ \E p \in Procs : createRedisCluster(p)
  \/ \E p \in Procs : createRedisCluster_Create(p)
  \/ \E p \in Procs : DeleteRedis(p)
  \/ \E p \in Procs : deleteRedisCluster(p)
  \/ \E p \in Procs : deleteRedisCluster_Update(p)
  \/ \E p \in Procs : deleteRedisCluster_Delete(p)
  \/ ExtPropagate
  \/ ExtStatus
  \/ ExtDeleted
  \/ MarkDeleted

Spec == Init /\ [][Next]_vars

\* ------------------------------------------------------ repeated passes
\* The caller reconciles one Redis object sequentially: one reconciler, which runs
\* DeleteRedis once the object has its deletion timestamp and CreateRedis before that.
Reconciler == "A"

Live_CreateRedis == ~deletionTimestamp /\ CreateRedis(Reconciler)

Live_DeleteRedis == deletionTimestamp /\ DeleteRedis(Reconciler)

\* the control plane brings the group to rest: creating or modifying becomes available
ExtSettle == ExtStatus /\ rg' = "available"

LiveNext ==
  \/ Live_CreateRedis
  \/ Live_DeleteRedis
  \/ getReplicationGroups_Timeout(Reconciler)
  \/ createRedisCluster(Reconciler)
  \/ createRedisCluster_Create(Reconciler)
  \/ deleteRedisCluster(Reconciler)
  \/ deleteRedisCluster_Update(Reconciler)
  \/ deleteRedisCluster_Delete(Reconciler)
  \/ ExtPropagate
  \/ ExtSettle
  \/ ExtDeleted
  \/ MarkDeleted

\* Passes keep being invoked and every step of a pass returns (weak fairness); a list,
\* an update and a call that keep being tried get through in the end (strong fairness);
\* the control plane makes progress.
LiveFairness ==
  /\ WF_vars(Live_CreateRedis /\ pc'[Reconciler] = "list")
  /\ WF_vars(Live_DeleteRedis /\ pc'[Reconciler] = "list")
  /\ SF_vars(createRedisCluster(Reconciler))
  /\ SF_vars(deleteRedisCluster(Reconciler))
  /\ WF_vars(createRedisCluster_Create(Reconciler))
  /\ SF_vars(createRedisCluster_Create(Reconciler) /\ rg = "absent" /\ rg' = "creating")
  /\ WF_vars(deleteRedisCluster_Update(Reconciler))
  /\ SF_vars(deleteRedisCluster_Update(Reconciler) /\ updated'[Reconciler])
  /\ WF_vars(deleteRedisCluster_Delete(Reconciler))
  /\ SF_vars(deleteRedisCluster_Delete(Reconciler) /\ rg' = "deleting")
  /\ WF_vars(ExtPropagate)
  /\ WF_vars(ExtSettle)
  /\ WF_vars(ExtDeleted)

LiveSpec == Init /\ [][LiveNext]_vars /\ LiveFairness

\* ------------------------------------------------ ReconcileRedisSnapshot
UpdateError == "failed to update resource status"

PanicIndexOutOfRange == "panic: runtime error: index out of range"

\* resources.UpdateSnapshotPhase(ctx, client, instance, phase, msg): sets the phase and
\* the message on the instance and updates its status; `ok` is whether the update succeeds
UpdateSnapshotPhase(ok, ph, msg) ==
  IF ok THEN phase' = ph /\ message' = msg ELSE UNCHANGED <<phase, message>>

\* the record of a pass after one more call of UpdateSnapshotPhase
Wrote(rec, ok) == [rec EXCEPT !.writes = @ + 1, !.failedWrites = IF ok THEN @ ELSE @ + 1]

Return(res) ==
  /\ sPc' = "idle"
  /\ result' = res

\* mutant: the wrapped error is lost
Wrap_AlwaysNil(err, msg) == NoError

\* errorUtil.Wrap(err, msg): nil for a nil err
Wrap(err, msg) == IF err = NoError THEN NoError ELSE msg

\* fmt.Sprintf("%s", p) for p a *string: the verb does not apply to a pointer, and the
\* output is the pointer, not the string it points to
SprintfPointer(str) == "%!s(*string=0xc000012345)"

\* mutant: a complete snapshot is reconciled like any other
ShortCircuits_Never(ph) == FALSE

\* part_000:116  instance.Status.Phase == croType.PhaseComplete
ShortCircuits(ph) == ph = PhaseComplete

\* part_000:97-129: get the RedisSnapshot, return when it is complete, get the Redis cr
Reconcile ==
  /\ sPc = "idle"
  /\ \E get \in {"ok", "notfound", "error"}, redis \in {"ok", "error"}, ok \in BOOLEAN :
       LET begun == [NoPass EXCEPT !.started = TRUE, !.startPhase = phase,
                                   !.startMessage = message]
       IN  IF get = "notfound"
           THEN /\ pass' = begun
                /\ Return(Result(FALSE, 0, NoError))
                /\ UNCHANGED <<phase, message>>
           ELSE IF get = "error"
           THEN /\ pass' = begun
                /\ Return(Result(FALSE, 0, "failed to get redis snapshot"))
                /\ UNCHANGED <<phase, message>>
           ELSE IF ShortCircuits(phase)
           THEN /\ pass' = begun
                /\ Return(Result(FALSE, 0, NoError))
                /\ UNCHANGED <<phase, message>>
           ELSE IF redis = "error"
           THEN /\ pass' = Wrote([begun EXCEPT !.redis = "error"], ok)
                /\ UpdateSnapshotPhase(ok, PhaseFailed,
                                       Msg("failed to get redis cr : %s", "not found"))
                /\ IF ok
                   THEN sPc' = "strategy" /\ result' = NoResult
                   ELSE Return(Result(FALSE, 0, UpdateError))
           ELSE /\ pass' = [begun EXCEPT !.redis = "ok"]
                /\ sPc' = "strategy"
                /\ result' = NoResult
                /\ UNCHANGED <<phase, message>>
  /\ UNCHANGED <<snapshot, primary, snapshotCalls, provVars>>

\* part_000:133, 143, 155, 171, 181: the status message of each failed step
SetupMessage(failing) ==
  IF failing = "strategy" THEN Msg("none supported deployment strategy", "")
  ELSE IF failing = "config" THEN Msg("failed to read aws strategy config", "")
  ELSE IF failing = "credentials" THEN Msg("failed to reconcile elasticache credentials", "")
  ELSE IF failing = "snapshotName" THEN Msg("failed to generate snapshot name", "")
  ELSE Msg("failed to get cluster name", "")

\* part_000:131-186: deployment strategy, region, credentials, snapshot and cluster name
Reconcile_Setup ==
  /\ sPc = "strategy"
  /\ \E strategy \in {AWSDeploymentStrategy, "openshift"},
        failure \in {"none", "config", "credentials", "snapshotName", "clusterName"},
        ok \in BOOLEAN :
       LET found == IF pass.redis = "error" THEN "" ELSE strategy
           failing == IF found # AWSDeploymentStrategy THEN "strategy" ELSE failure
       IN  IF failing = "none"
           THEN /\ sPc' = "describe"
                /\ UNCHANGED <<phase, message, pass, result>>
           ELSE /\ pass' = Wrote(pass, ok)
                /\ UpdateSnapshotPhase(ok, PhaseFailed, SetupMessage(failing))
                /\ Return(Result(FALSE, 0, IF ok THEN SetupMessage(failing)[1]
                                                 ELSE UpdateError))
  /\ UNCHANGED <<snapshot, primary, snapshotCalls, provVars>>

\* the members of the replication group's first node group, with their current roles
NodeGroupMembers ==
  [i \in 1 .. Len(Nodes) |->
     [CacheClusterId |-> Nodes[i],
      CurrentRole |-> IF Nodes[i] = primary THEN "primary" ELSE "replica"]]

RECURSIVE PrimaryFrom(_, _)
PrimaryFrom(members, i) ==
  IF i > Len(members) THEN ""
  ELSE IF members[i].CurrentRole = "primary" THEN members[i].CacheClusterId
  ELSE PrimaryFrom(members, i + 1)

\* part_000:214-221
PrimaryCacheName(members) == PrimaryFrom(members, 1)

\* part_000:239-252: where Reconcile goes with the snapshot it found
AfterDescribe(foundSnapshot) ==
  IF foundSnapshot = "nil" THEN "create"
  ELSE IF foundSnapshot = "available" THEN "complete"
  ELSE "progress"

\* part_000:188-221: DescribeSnapshots, DescribeReplicationGroups, the availability check
Reconcile_Describe ==
  /\ sPc = "describe"
  /\ \E snapsOk \in BOOLEAN, groupsOk \in BOOLEAN, ok \in BOOLEAN :
       LET found == IF snapsOk /\ snapshot # "absent" THEN snapshot ELSE "nil"
           groups == IF groupsOk /\ rg # "absent" /\ rgVisible THEN <<rg>> ELSE <<>>
           err == IF groups # <<>> THEN NoError ELSE "ReplicationGroupNotFoundFault"
           seen == [pass EXCEPT !.foundSnapshot = found,
                                !.group = IF groups = <<>> THEN "nil" ELSE groups[1],
                                !.err = err,
                                !.calls = @ \cup {"DescribeSnapshots",
                                                  "DescribeReplicationGroups"}]
       IN  IF groups = <<>>
           THEN /\ pass' = seen
                /\ Return(Result(FALSE, 0, PanicIndexOutOfRange))
                /\ UNCHANGED <<phase, message>>
           ELSE IF groups[1] # "available"
           THEN /\ pass' = Wrote(seen, ok)
                /\ UpdateSnapshotPhase(ok, PhaseFailed,
                                       Msg("current replication group status is %s",
                                           SprintfPointer(groups[1])))
                /\ IF ok
                   THEN Return(Result(TRUE, RequeueSeconds,
                                      Wrap(err, "failed to get cluster name")))
                   ELSE Return(Result(FALSE, 0, UpdateError))
           ELSE /\ pass' = [seen EXCEPT !.cacheName = PrimaryCacheName(NodeGroupMembers)]
                /\ sPc' = AfterDescribe(found)
                /\ UNCHANGED <<phase, message, result>>
  /\ UNCHANGED <<snapshot, primary, snapshotCalls, provVars>>

\* part_000:223-232: the CreateSnapshot call
Reconcile_CreateSnapshot ==
  /\ sPc = "create"
  /\ snapshotCalls < MaxSnapshotCalls
  /\ snapshotCalls' = snapshotCalls + 1
  /\ \E sent \in BOOLEAN :
       LET accepted == sent /\ snapshot = "absent" /\ pass.cacheName # ""
       IN  /\ pass' = [pass EXCEPT !.calls = @ \cup {"CreateSnapshot"},
                                   !.err = IF accepted THEN NoError
                                           ELSE "create snapshot failed"]
           /\ snapshot' = IF accepted THEN "creating" ELSE snapshot
           /\ IF accepted
              THEN sPc' = "created" /\ UNCHANGED result
              ELSE Return(Result(FALSE, 0, Wrap("create snapshot failed",
                                                "error creating elasticache snapshot")))
  /\ UNCHANGED <<phase, message, primary, provVars>>

\* part_000:233-236: the snapshot was requested
Reconcile_Created ==
  /\ sPc = "created"
  /\ \E ok \in BOOLEAN :
       /\ pass' = Wrote(pass, ok)
       /\ UpdateSnapshotPhase(ok, PhaseInProgress, Msg("snapshot creation in progress", ""))
       /\ IF ok
          THEN Return(Result(TRUE, RequeueSeconds, NoError))
          ELSE Return(Result(FALSE, 0, UpdateError))
  /\ UNCHANGED <<snapshot, primary, snapshotCalls, provVars>>

\* part_000:239-245: the found snapshot is available
Reconcile_Complete ==
  /\ sPc = "complete"
  /\ \E ok \in BOOLEAN :
       /\ pass' = Wrote(pass, ok)
       /\ UpdateSnapshotPhase(ok, PhaseComplete, Msg("snapshot created", ""))
       /\ IF ok
          THEN sPc' = "progress" /\ UNCHANGED result
          ELSE Return(Result(FALSE, 0, pass.err))
  /\ UNCHANGED <<snapshot, primary, snapshotCalls, provVars>>

\* part_000:247-252: the current snapshot status is reported
Reconcile_Progress ==
  /\ sPc = "progress"
  /\ \E ok \in BOOLEAN :
       /\ pass' = Wrote(pass, ok)
       /\ UpdateSnapshotPhase(ok, PhaseInProgress,
                              Msg("current snapshot status :  %s", pass.foundSnapshot))
       /\ IF ok
          THEN Return(Result(TRUE, RequeueSeconds, NoError))
          ELSE Return(Result(FALSE, 0, UpdateError))
  /\ UNCHANGED <<snapshot, primary, snapshotCalls, provVars>>

\* the control plane finishes the snapshot
SnapshotAvailable ==
  /\ snapshot = "creating"
  /\ snapshot' = "available"
  /\ UNCHANGED <<phase, message, primary, snapshotCalls, sPc, pass, result, provVars>>

\* a failover: another node, or for a while none, holds the primary role
Failover ==
  /\ \E n \in {Nodes[i] : i \in 1 .. Len(Nodes)} \cup {""} :
       /\ n # primary
       /\ primary' = n
  /\ UNCHANGED <<phase, message, snapshot, snapshotCalls, sPc, pass, result, provVars>>

\* a RedisSnapshot is created for a Redis whose replication group exists or does not
SnapInit ==
  /\ SnapIdle
  /\ rg \in {"absent", "available"}
  /\ rgVisible = (rg # "absent")
  /\ finalizers = {DefaultFinalizer}
  /\ deletionTimestamp = FALSE
  /\ createCalls = 0
  /\ deleteCalls = 0
  /\ pc = [p \in Procs |-> "idle"]
  /\ op = [p \in Procs |-> "none"]
  /\ r = [p \in Procs |-> [fin |-> {}, del |-> FALSE]]
  /\ rgs = [p \in Procs |-> <<>>]
  /\ updated = [p \in Procs |-> FALSE]
  /\ called = [p \in Procs |-> {}]
  /\ ret = [p \in Procs |-> NoReturn]

SnapNext ==
  \/ Reconcile
  \/ Reconcile_Setup
  \/ Reconcile_Describe
  \/ Reconcile_CreateSnapshot
  \/ Reconcile_Created
  \/ Reconcile_Complete
  \/ Reconcile_Progress
  \/ SnapshotAvailable
  \/ Failover
  \/ ExtStatus

SnapSpec == SnapInit /\ [][SnapNext]_vars

\* ================================================================== claims
\* a pass of `operation` by p that has returned
Returns(p, operation) == op[p] = operation /\ pc[p] = "idle"

Listed(p) == rgs[p] # <<>>

\* the status under which the list of p's pass shows the target group, "none" if it does not
ListedStatus(p) ==
  IF ~Listed(p) \/ FoundCache(rgs[p], TargetId) = 0 THEN "none"
  ELSE rgs[p][FoundCache(rgs[p], TargetId)].Status

Issued(p, api) == \E c \in called[p] : c.api = api

HasMarker == DefaultFinalizer \in finalizers

\* C1 (as claimed): in every reachable state the persisted finalizer marker is present
\* whenever a replication group with the resolved id exists externally, visible to a
\* list or not.
C1_MarkerWhileGroupExists == rg # "absent" => HasMarker

\* C2 (as claimed): a DeleteRedis pass removes the marker if and only if its own list
\* holds no group with the resolved id; nothing else removes it.
C2_RemovedIffListedAbsent ==
  [][ /\ (HasMarker /\ ~HasMarker')
         => \E p \in Procs : /\ op[p] = "delete" /\ pc[p] = "update" /\ pc'[p] = "idle"
                             /\ ListedStatus(p) = "none"
      /\ \A p \in Procs :
           (op[p] = "delete" /\ pc[p] # "idle" /\ pc'[p] = "idle" /\ Listed(p)
              /\ ListedStatus(p) = "none")
           => ~HasMarker' ]_vars

\* C2 (amended): the marker is removed only by the update of a DeleteRedis pass whose
\* own list holds no group with the resolved id, and such a pass removes it exactly
\* when that update is persisted; when the update fails the marker stays and the pass
\* returns the error.  No other step removes the marker.
C2_RemovedOnlyOnListedAbsent ==
  [][ /\ (HasMarker /\ ~HasMarker')
         => \E p \in Procs : /\ op[p] = "delete" /\ pc[p] = "update" /\ pc'[p] = "idle"
                             /\ ListedStatus(p) = "none" /\ updated'[p]
      /\ \A p \in Procs :
           (op[p] = "delete" /\ pc[p] # "idle" /\ pc'[p] = "idle" /\ Listed(p)
              /\ ListedStatus(p) = "none")
           => IF updated'[p]
              THEN ~HasMarker' /\ ret'[p].err = NoError
              ELSE finalizers' = finalizers /\ ret'[p].err # NoError
      /\ \A p \in Procs :
           (op[p] = "delete" /\ Listed(p) /\ ListedStatus(p) # "none")
           => pc[p] # "update" /\ ~updated[p] ]_vars

\* a DeleteRedis pass listed no match and its update took the marker off the object
C2_Witness ==
  \E p \in Procs : /\ Returns(p, "delete") /\ ListedStatus(p) = "none" /\ Listed(p)
                   /\ updated[p] /\ DefaultFinalizer \in r[p].fin /\ ~HasMarker

\* C3 (as claimed): every CreateRedis pass that issues a create-replication-group call
\* has attached the finalizer and persisted that update earlier in the same pass,
\* whatever object it was handed.
C3_MarkerAttachedBeforeCreate ==
  \A p \in Procs : (op[p] = "create" /\ (pc[p] = "create" \/ Issued(p, "CreateReplicationGroup")))
                   => updated[p]

\* C4: a CreateRedis pass whose list shows the target group, in whatever status, issues
\* no create-replication-group call; a pass issues one only after a list without it.
C4_NoCreateWhenListed ==
  \A p \in Procs :
    op[p] = "create" =>
      /\ (pc[p] = "create" \/ Issued(p, "CreateReplicationGroup"))
           => Listed(p) /\ ListedStatus(p) = "none"
      /\ (Listed(p) /\ ListedStatus(p) # "none") => pc[p] = "idle" /\ called[p] = {}

\* two passes have returned: one listed the group while it was not available and called
\* nothing, the other listed no group and issued the create call
C4_Witness ==
  \E p, q \in Procs :
    /\ Returns(p, "create") /\ ListedStatus(p) \in Statuses \ {"available"} /\ called[p] = {}
    /\ Returns(q, "create") /\ ListedStatus(q) = "none" /\ Issued(q, "CreateReplicationGroup")

\* C5 (as claimed): however the passes of two reconcilers interleave, at most one create
\* call is issued for the id per life of the group, and at most one delete call.
C5_AtMostOneCallInFlight == createCalls <= 1 /\ deleteCalls <= 1

\* the pass of p changed the stored object
ChangedObject(p) == updated[p] /\ op[p] = "create" /\ DefaultFinalizer \notin r[p].fin

TargetCluster == [URI |-> Endpoint(TargetId).Address, Port |-> Endpoint(TargetId).Port]

\* C6 (as claimed): a CreateRedis pass that lists the group as available returns the
\* group's endpoint and no error, issues no call and changes neither the external nor
\* the persisted state; two such passes return the same endpoint.
C6_AvailableHasNoSideEffect ==
  \A p \in Procs :
    (Returns(p, "create") /\ ListedStatus(p) = "available") =>
      /\ ret[p] = Returned(<<TargetCluster>>, NoError)
      /\ called[p] = {}
      /\ ~ChangedObject(p)
      /\ \A q \in Procs : (Returns(q, "create") /\ ListedStatus(q) = "available")
                          => ret[q].cluster = ret[p].cluster

\* C6 (amended): a CreateRedis pass that lists the group as available returns the
\* group's endpoint and no error and issues no control-plane call; two such passes return
\* the same endpoint.  The one thing such a pass may change is the stored object: it
\* attaches the finalizer marker when the object has no deletion timestamp.
C6_AvailableReturnsEndpoint ==
  \A p \in Procs :
    (Returns(p, "create") /\ ListedStatus(p) = "available") =>
      /\ ret[p] = Returned(<<TargetCluster>>, NoError)
      /\ called[p] = {}
      /\ updated[p] <=> ~r[p].del
      /\ ChangedObject(p) => ~r[p].del
      /\ \A q \in Procs : (Returns(q, "create") /\ ListedStatus(q) = "available")
                          => ret[q].cluster = ret[p].cluster

\* two passes listed the available group and returned its endpoint
C6_Witness ==
  \E p, q \in Procs :
    /\ p # q
    /\ Returns(p, "create") /\ ListedStatus(p) = "available"
    /\ Returns(q, "create") /\ ListedStatus(q) = "available"
    /\ ret[p].cluster = <<TargetCluster>> /\ ret[q].cluster = <<TargetCluster>>
    /\ rg = "available"

DeleteAnswers(p) == {c.answer : c \in {d \in called[p] : d.api = "DeleteReplicationGroup"}}

\* C7 (as claimed): a DeleteRedis pass returns no error when its list holds no matching
\* group and when the delete call answers "replication group not found"; every other
\* failure of the delete call is returned as an error.
C7_GoneIsSuccess ==
  \A p \in Procs :
    Returns(p, "delete") =>
      /\ (Listed(p) /\ ListedStatus(p) = "none") => ret[p].err = NoError
      /\ ErrCodeReplicationGroupNotFoundFault \in DeleteAnswers(p) => ret[p].err = NoError
      /\ (DeleteAnswers(p) \ {"ok", ErrCodeReplicationGroupNotFoundFault} # {})
           => ret[p].err # NoError

\* C7 (amended): a DeleteRedis pass whose list holds no matching group returns no error
\* when its finalizer update is persisted and returns the update's error otherwise; a
\* pass whose delete call answers "replication group not found" returns no error; every
\* other failure of the delete call is returned as an error.
C7_GoneIsSuccessIfPersisted ==
  \A p \in Procs :
    Returns(p, "delete") =>
      /\ (Listed(p) /\ ListedStatus(p) = "none")
           => /\ updated[p] => ret[p].err = NoError
              /\ ~updated[p]
                   => ret[p].err = "failed to update instance as part of finalizer reconcile"
      /\ ErrCodeReplicationGroupNotFoundFault \in DeleteAnswers(p) => ret[p].err = NoError
      /\ (DeleteAnswers(p) \ {"ok", ErrCodeReplicationGroupNotFoundFault} # {})
           => ret[p].err # NoError

\* a pass listed the group as available, its delete call was answered "not found" (the
\* group went away in between) and the pass returned no error
C7_Witness ==
  \E p \in Procs :
    /\ Returns(p, "delete") /\ ListedStatus(p) = "available"
    /\ DeleteAnswers(p) = {ErrCodeReplicationGroupNotFoundFault}
    /\ ret[p].err = NoError

\* a snapshot Reconcile pass has returned
Reconciled == pass.started /\ sPc = "idle"

\* C8 (as claimed): a Reconcile pass that finds the cluster available and the snapshot of
\* the generated name available ends with the persisted phase Complete and asks for no
\* re-check.  Stated for the passes all of whose status updates succeed, which the claim
\* covers.
C8_AvailableSnapshotEndsComplete ==
  (Reconciled /\ pass.group = "available" /\ pass.foundSnapshot = "available"
     /\ pass.failedWrites = 0)
  => /\ phase = PhaseComplete
     /\ ~result.Requeue
     /\ result.RequeueAfter = 0

\* C9: a Reconcile pass over a RedisSnapshot whose persisted phase is Complete calls
\* neither DescribeSnapshots nor DescribeReplicationGroups nor CreateSnapshot, updates no
\* status, leaves the phase Complete and asks for no requeue.
C9_CompleteShortCircuits ==
  (pass.started /\ pass.startPhase = PhaseComplete)
  => /\ sPc = "idle"
     /\ pass.calls = {}
     /\ pass.writes = 0
     /\ phase = PhaseComplete
     /\ message = pass.startMessage
     /\ ~result.Requeue
     /\ result.RequeueAfter = 0

\* a pass over a complete RedisSnapshot has read it and returned
C9_Witness ==
  /\ Reconciled
  /\ pass.startPhase = PhaseComplete
  /\ result = Result(FALSE, 0, NoError)
  /\ snapshotCalls > 0

\* the place of a phase in the order Pending, InProgress, Complete
Rank(ph) ==
  IF ph = PhaseInProgress THEN 1
  ELSE IF ph = PhaseComplete THEN 2
  ELSE 0

\* C10 (as claimed): every status write moves the phase forward in the order Pending,
\* InProgress, Complete or sets it to Failed (from where a later write may move it on);
\* no write changes the phase away from Complete.
C10_PhaseMonotone ==
  [][phase' # phase
       => \/ phase' = PhaseFailed
          \/ phase = PhaseFailed /\ phase' # PhaseNone
          \/ (phase # PhaseFailed /\ Rank(phase') > Rank(phase))]_vars

\* C11 (as claimed): over all Reconcile passes on one RedisSnapshot, passes whose
\* DescribeSnapshots fails or returns nothing included, the create-snapshot call is not
\* issued again for the generated name once a snapshot of that name exists.
C11_CreateSnapshotAtMostOnce ==
  [][snapshotCalls' > snapshotCalls => snapshot = "absent"]_vars

\* C12 (as claimed): a Reconcile pass that finds the replication group in a status other
\* than available sets the phase to Failed with a message that contains that status,
\* issues no create-snapshot call and asks for a requeue after 60 seconds.  Stated for
\* the passes whose status update succeeds.
C12_NotAvailableFailsWithStatus ==
  (Reconciled /\ pass.group \in Statuses \ {"available"} /\ pass.failedWrites = 0)
  => /\ phase = PhaseFailed
     /\ message[2] = pass.group
     /\ "CreateSnapshot" \notin pass.calls
     /\ result.Requeue
     /\ result.RequeueAfter = RequeueSeconds

\* C13 (as claimed): a pass one of whose updates is not persisted returns a non-nil
\* error at once: the failed update is the last thing the pass does.
C13_PersistenceFailureIsReturned ==
  /\ \A p \in Procs :
       (Returns(p, "create") /\ ~r[p].del /\ ~updated[p])
       => ret[p].err # NoError /\ called[p] = {} /\ ~Listed(p)
  /\ \A p \in Procs :
       (Returns(p, "delete") /\ Listed(p) /\ ListedStatus(p) = "none" /\ ~updated[p])
       => ret[p].err # NoError /\ called[p] = {}
  /\ (Reconciled /\ pass.failedWrites > 0)
     => result.err # NoError /\ pass.failedWrites = 1

\* C15 (as claimed): a Reconcile pass whose get of the Redis cr fails sets the phase to
\* Failed with the error of the get as the message and stops: one status update, no
\* call to the control plane, and the persisted message is that of the get.  Stated for
\* the passes whose status updates succeed.
C15_RedisGetFailureStops ==
  (Reconciled /\ pass.redis = "error" /\ pass.failedWrites = 0)
  => /\ phase = PhaseFailed
     /\ message = Msg("failed to get redis cr : %s", "not found")
     /\ pass.writes = 1
     /\ pass.calls = {}

\* C19: a Reconcile pass whose CreateSnapshot call fails returns that failure as an
\* error, asks for no requeue, updates no status and leaves the phase and the message as
\* they were when the pass began.
C19_CreateFailureLeavesStatus ==
  (Reconciled /\ "CreateSnapshot" \in pass.calls /\ pass.err # NoError)
  => /\ result = Result(FALSE, 0, "error creating elasticache snapshot")
     /\ pass.writes = 0
     /\ phase = pass.startPhase
     /\ message = pass.startMessage

\* a pass over a RedisSnapshot that an earlier pass had marked failed called
\* CreateSnapshot, the call failed and the pass returned the error
C19_Witness ==
  /\ Reconciled
  /\ "CreateSnapshot" \in pass.calls
  /\ pass.err = "create snapshot failed"
  /\ result.err = "error creating elasticache snapshot"
  /\ phase = PhaseFailed
  /\ pass.startPhase = PhaseFailed

\* C20 (as claimed): every create-snapshot call names a cache cluster of the replication
\* group as its source, the one found in the primary role; no call is issued with an
\* empty source when no member holds the primary role.
C20_SourceIsPrimary ==
  "CreateSnapshot" \in pass.calls
  => \E i \in 1 .. Len(Nodes) : pass.cacheName = Nodes[i]

\* numbers of failed describes around the two ends of the poll
PollCases ==
  LET last == PollTimeout \div PollInterval
  IN  {0, 1, 2, last - 1, last, last + 1, last + 2}

CreateAnswers(p) == {c.answer : c \in {d \in called[p] : d.api = "CreateReplicationGroup"}}

\* C17: what a CreateRedis pass returns follows from what its list shows of the target
\* group.  An endpoint is returned only when the group is listed as available, and then
\* with no error; listed in another status the pass returns neither endpoint nor error;
\* not listed, the pass returns neither when the create call is accepted and the call's
\* error, with no endpoint, when the call fails.
C17_OutcomeFollowsListedState ==
  \A p \in Procs :
    Returns(p, "create") =>
      /\ ret[p].cluster # <<>> => ListedStatus(p) = "available" /\ ret[p].err = NoError
      /\ ListedStatus(p) = "available" => ret[p].cluster # <<>>
      /\ ListedStatus(p) \in Statuses \ {"available"} => ret[p] = Returned(<<>>, NoError)
      /\ (Listed(p) /\ ListedStatus(p) = "none") =>
           /\ CreateAnswers(p) # {}
           /\ CreateAnswers(p) = {"ok"} => ret[p] = Returned(<<>>, NoError)
           /\ CreateAnswers(p) # {"ok"} => ret[p].cluster = <<>> /\ ret[p].err # NoError

\* of two passes that listed no group, one had its create call accepted and returned
\* nothing, the other had its create call refused and returned the error
C17_Witness ==
  \E p, q \in Procs :
    /\ Returns(p, "create") /\ Listed(p) /\ ListedStatus(p) = "none"
    /\ CreateAnswers(p) = {"ok"} /\ ret[p] = Returned(<<>>, NoError)
    /\ Returns(q, "create") /\ Listed(q) /\ ListedStatus(q) = "none"
    /\ CreateAnswers(q) = {"ReplicationGroupAlreadyExists"}
    /\ ret[q] = Returned(<<>>, "ReplicationGroupAlreadyExists")

\* C18: a DeleteRedis pass that lists the target group in a status other than available
\* issues no delete call, does not update the object (the marker stays as it is) and
\* returns no error.
C18_NotAvailableDeletesNothing ==
  /\ \A p \in Procs :
       (op[p] = "delete" /\ ListedStatus(p) \in Statuses \ {"available"})
       => /\ pc[p] = "idle"
          /\ called[p] = {}
          /\ ~updated[p]
          /\ ret[p] = Returned(<<>>, NoError)

\* a DeleteRedis pass on an object that is being deleted listed the group as creating
\* and returned; the marker is on the object and the group is still there
C18_Witness ==
  \E p \in Procs :
    /\ Returns(p, "delete") /\ ListedStatus(p) = "creating"
    /\ ret[p] = Returned(<<>>, NoError)
    /\ deletionTimestamp /\ HasMarker /\ DefaultFinalizer \in r[p].fin
    /\ rg # "absent"

EndpointReturned ==
  Returns(Reconciler, "create") /\ ret[Reconciler] = Returned(<<TargetCluster>>, NoError)

C21_NoMissingDescribeResult ==
  [][sPc = "describe"
       => /\ result'.err # PanicIndexOutOfRange
          /\ sPc' = "create" => snapshot = "absent"]_vars

\* C22 (as claimed): a Reconcile pass over an existing RedisSnapshot that got past the
\* check for Complete and ends with a persisted phase other than Complete returns an
\* error or asks for a requeue.
C22_UnfinishedIsRequeued ==
  (Reconciled /\ pass.redis # "" /\ phase # PhaseComplete)
  => (result.err # NoError \/ result.Requeue)

====
